---- MODULE Spec2Model ----
(***************************************************************************)
(* Dual-path compilation pipeline of the Motion Canvas fiddle:             *)
(*   compileScene        (src/src/compiler.ts)          the orchestrator   *)
(*   compileWithBabel    (src/src/compiler.ts)          the Fast Compiler  *)
(*   compileWithWebContainer (webcontainer-compiler)    the sandboxed path *)
(*   detectFeatures      (src/src/feature-detector.ts)  the detector       *)
(*   ExportController    (src/src/export-controller.ts) the export loop    *)
(* Every action is one continuation of an async function: the code that    *)
(* runs from the settling of one awaited promise to the next await.        *)
(***************************************************************************)
EXTENDS Integers, Sequences, FiniteSets, TLC

\* Number of compile calls started in one behaviour.
MaxCalls == 3

\* Number of export calls started in one behaviour.
MaxExports == 2

\* totalExportFrames of the exported animation.
TotalFrames == 2

\* Concurrent async call slots (a finished slot is reused by a later call).
Slots == {1, 2}

(***************************************************************************)
(* Package tables                                                          *)
(***************************************************************************)
BUNDLED_PACKAGES ==
  { "@motion-canvas/core", "@motion-canvas/2d", "@hhenrichsen/canvas-commons",
    "@spidunno/motion-canvas-graphing", "three", "shiki",
    "@lezer/common", "@lezer/highlight", "@lezer/lr", "@lezer/cpp",
    "@lezer/css", "@lezer/go", "@lezer/html", "@lezer/java",
    "@lezer/javascript", "@lezer/json", "@lezer/markdown", "@lezer/php",
    "@lezer/python", "@lezer/rust", "@lezer/sass", "@lezer/xml",
    "@lezer/yaml" }

\* Object.keys(BASE_DEPENDENCIES), in insertion order.
BASE_DEPENDENCIES ==
  << "@motion-canvas/core", "@motion-canvas/2d", "vite", "typescript" >>

lezerPackages ==
  << "@lezer/common", "@lezer/highlight", "@lezer/lr", "@lezer/cpp",
     "@lezer/css", "@lezer/go", "@lezer/html", "@lezer/java",
     "@lezer/javascript", "@lezer/json", "@lezer/markdown", "@lezer/php",
     "@lezer/python", "@lezer/rust", "@lezer/sass", "@lezer/xml",
     "@lezer/yaml" >>

\* Keys of OPTIONAL_DEPENDENCIES.
OPTIONAL_DEPENDENCIES ==
  { "@hhenrichsen/canvas-commons", "@spidunno/motion-canvas-graphing",
    "three", "shiki" } \cup { lezerPackages[i] : i \in DOMAIN lezerPackages }

\* Every package name of the model's universe in the order of JavaScript's
\* default string comparison (UTF-16 code units: '@' < letters).
StringOrder ==
  << "@hhenrichsen/canvas-commons",
     "@lezer/common", "@lezer/cpp", "@lezer/css", "@lezer/go",
     "@lezer/highlight", "@lezer/html", "@lezer/java", "@lezer/javascript",
     "@lezer/json", "@lezer/lr", "@lezer/markdown", "@lezer/php",
     "@lezer/python", "@lezer/rust", "@lezer/sass", "@lezer/xml",
     "@lezer/yaml",
     "@motion-canvas/2d", "@motion-canvas/core",
     "@scope/pkg", "@spidunno/motion-canvas-graphing",
     "jquery", "leftpad", "lodash", "shiki", "three", "typescript", "vite" >>

Rank(p) == CHOOSE i \in DOMAIN StringOrder : StringOrder[i] = p

\* a < b for two strings of the universe.
StringLess(a, b) == Rank(a) < Rank(b)

(***************************************************************************)
(* Source texts.  A source is described by the facts the regular           *)
(* expressions and the transpiler extract from it:                         *)
(*   imports      the import specifiers in textual order, each split at    *)
(*                '/' into its segments                                    *)
(*   clauses      per import, the kinds of characters between `import` and *)
(*                `from`: "word", "{", "}", ",", "*", "$"; empty for a     *)
(*                bare import                                              *)
(*   exportDefaultText   the text contains `export default`                *)
(*   mentions     package names that occur in the raw text outside import  *)
(*                statements (comments, strings)                           *)
(*   decorators   the decorator pattern matches                            *)
(*   exportCount  matches of export <class|function|const|...>             *)
(*   reexports    a re-export form is present                              *)
(*   hasDefault   the module has a (truthy) default export                 *)
(*   syntaxError  Babel.transform throws on it                             *)
(*   undeclared   referenced identifiers with no binding, in order         *)
(*   throwStage   where the transform throws: "parse" (the parser's error  *)
(*                carries loc and pos), "traverse" (a plugin's code-frame  *)
(*                error, thrown after the visitors saw the statements      *)
(*                before it, no loc), "result" (the empty-output check,    *)
(*                no loc), or "none"                                       *)
(***************************************************************************)
Src(imports, decorators, exportCount, hasDefault, syntaxError, undeclared) ==
  [ imports |-> imports,
    clauses |-> [ i \in DOMAIN imports |-> <<"{", "word", "}">> ],
    exportDefaultText |-> hasDefault,
    mentions |-> {}, decorators |-> decorators,
    exportCount |-> exportCount, reexports |-> FALSE,
    hasDefault |-> hasDefault, syntaxError |-> syntaxError,
    undeclared |-> undeclared,
    throwStage |-> IF syntaxError THEN "parse" ELSE "none" ]

SourceTexts ==
  << \* 1  export default () => {}
     Src(<<>>, FALSE, 0, TRUE, FALSE, <<>>),
     \* 2  import {x} from 'leftpad'; export default ...
     Src(<< <<"leftpad">> >>, FALSE, 0, TRUE, FALSE, <<>>),
     \* 3  imports lodash then leftpad
     Src(<< <<"lodash">>, <<"leftpad">> >>, FALSE, 0, TRUE, FALSE, <<>>),
     \* 4  imports leftpad/lib then lodash (same packages, other order)
     Src(<< <<"leftpad", "lib">>, <<"lodash">> >>, FALSE, 0, TRUE, FALSE, <<>>),
     \* 5  a decorated class: Babel has no decorator plugin and throws
     Src(<< <<"@motion-canvas", "2d">> >>, TRUE, 1, TRUE, TRUE, <<>>),
     \* 6  valid scene code without a default export
     Src(<< <<"@motion-canvas", "2d">> >>, FALSE, 1, FALSE, FALSE, <<>>),
     \* 7  no default export, imports an external package
     Src(<< <<"leftpad">> >>, FALSE, 1, FALSE, FALSE, <<>>),
     \* 8  a decorated class and no default export (Babel throws)
     Src(<< <<"@motion-canvas", "2d">> >>, TRUE, 1, FALSE, TRUE, <<>>),
     \* 9  imports canvas-commons and three
     Src(<< <<"@hhenrichsen", "canvas-commons">>, <<"three">> >>,
         FALSE, 0, TRUE, FALSE, <<>>),
     \* 10 references two unbound identifiers
     Src(<< <<"@motion-canvas", "core">> >>, FALSE, 0, TRUE, FALSE,
         <<"foo", "bar", "foo">>),
     \* 11 imports a base dependency of the sandbox project
     Src(<< <<"vite">> >>, FALSE, 0, TRUE, FALSE, <<>>),
     \* 12 relative import of the local highlighter and a scoped subpath
     Src(<< <<".", "shiki">>, <<"@scope", "pkg", "sub">> >>,
         FALSE, 0, TRUE, FALSE, <<>>),
     \* 13 the empty text: the transform's output is empty
     [ Src(<<>>, FALSE, 0, FALSE, TRUE, <<>>) EXCEPT !.throwStage = "result" ],
     \* 14 foo(); export = foo;  the TypeScript plugin rejects `export =`
     \*    after the visitor has seen the unbound foo
     [ Src(<<>>, FALSE, 0, FALSE, TRUE, <<"foo">>) EXCEPT
         !.throwStage = "traverse" ],
     \* 15 import 'three'; export = 1;  no unbound name before the throw
     [ Src(<< <<"three">> >>, FALSE, 0, FALSE, TRUE, <<>>) EXCEPT
         !.throwStage = "traverse" ],
     \* 16 import $ from 'jquery'; export default ...
     [ Src(<< <<"jquery">> >>, FALSE, 0, TRUE, FALSE, <<>>) EXCEPT
         !.clauses = << <<"$">> >> ],
     \* 17 three named exports, no default; lodash, leftpad/x, lodash again,
     \*    a relative file and a bundled package
     [ Src(<< <<"lodash">>, <<"leftpad", "x">>, <<"lodash">>,
              <<"..", "util">>, <<"@motion-canvas", "core", "lib">> >>,
           FALSE, 3, FALSE, FALSE, <<>>) EXCEPT
         !.clauses = << <<"word">>, <<"*", "word", "word">>, <<"{", "word", "}">>,
                        <<>>, <<"word", ",", "{", "word", "}">> >> ],
     \* 18 a default export and one named export
     Src(<<>>, FALSE, 1, TRUE, FALSE, <<>>),
     \* 19 a default export and two named exports
     Src(<<>>, FALSE, 2, TRUE, FALSE, <<>>),
     \* 20 five named exports, no default, no imports
     Src(<<>>, FALSE, 5, FALSE, FALSE, <<>>),
     \* 21 export * from './other'; export default ...
     [ Src(<<>>, FALSE, 0, TRUE, FALSE, <<>>) EXCEPT !.reexports = TRUE ],
     \* 22 two named exports; the default is exported as
     \*    export { scene as default }
     [ Src(<<>>, FALSE, 2, TRUE, FALSE, <<>>) EXCEPT
         !.exportDefaultText = FALSE ],
     \* 23 import * as core from '@motion-canvas/core';
     \*    import {Circle as C} from '@motion-canvas/2d';
     \*    import {Rect} from '@motion-canvas/2d';
     \*    import Commons from '@hhenrichsen/canvas-commons';
     \*    import * as THREE from 'three';  export default ...
     [ Src(<< <<"@motion-canvas", "core">>, <<"@motion-canvas", "2d">>,
              <<"@motion-canvas", "2d">>, <<"@hhenrichsen", "canvas-commons">>,
              <<"three">> >>,
           FALSE, 0, TRUE, FALSE, <<>>) EXCEPT
         !.clauses = << <<"*", "word", "word">>,
                        <<"{", "word", "word", "word", "}">>,
                        <<"{", "word", "}">>, <<"word">>,
                        <<"*", "word", "word">> >> ] >>

Codes == DOMAIN SourceTexts

(***************************************************************************)
(* Feature Detector                                                        *)
(***************************************************************************)
\* importPath.startsWith(".") || importPath.startsWith("/")
IsRelative(segs) == segs[1] \in {".", "..", ""}

\* importPath.startsWith("@")
IsScoped(segs) ==
  segs[1] \in {"@motion-canvas", "@hhenrichsen", "@spidunno", "@lezer", "@scope"}

\* Package name of an import path (scoped: first two segments).
PackageName(segs) ==
  IF IsScoped(segs)
    THEN IF Len(segs) >= 2 THEN segs[1] \o "/" \o segs[2] ELSE segs[1]
    ELSE segs[1]

SeqToSet(s) == { s[i] : i \in DOMAIN s }

RECURSIVE CollectExternal(_, _)
CollectExternal(imports, acc) ==
  IF imports = <<>> THEN acc
  ELSE LET segs == Head(imports)
           name == PackageName(segs)
       IN IF IsRelative(segs) THEN CollectExternal(Tail(imports), acc)
          ELSE IF name \notin BUNDLED_PACKAGES /\ name \notin SeqToSet(acc)
            THEN CollectExternal(Tail(imports), Append(acc, name))
            ELSE CollectExternal(Tail(imports), acc)

\* [\w{},\s*]
ClauseClass == { "word", "{", "}", ",", "*" }

\* /import\s+(?:[\w{},\s*]+\s+from\s+)?['"]([^'"]+)['"]/g matches an import
\* statement: a bare import, or a clause made of the class's characters.
importPattern(clause) == \A i \in DOMAIN clause : clause[i] \in ClauseClass

\* The capture groups of the successive matches.
importPaths(code) ==
  LET s == SourceTexts[code]
      idx == SelectSeq([ i \in 1..Len(s.imports) |-> i ],
                       LAMBDA i : importPattern(s.clauses[i]))
  IN [ k \in 1..Len(idx) |-> s.imports[idx[k]] ]

detectExternalPackages(code) == CollectExternal(importPaths(code), <<>>)

detectDecorators(code) == SourceTexts[code].decorators

\* Variant: three named exports already count as many.
detectComplexExports_ThreeIsMany(code) ==
  LET s == SourceTexts[code]
  IN s.reexports \/ s.exportCount >= 3
       \/ (s.exportDefaultText /\ s.exportCount > 1)

detectComplexExports(code) ==
  LET s == SourceTexts[code]
      hasMixedExports ==
        s.exportDefaultText /\ s.exportCount > 0 /\ s.exportCount > 1
  IN s.reexports \/ s.exportCount > 3 \/ hasMixedExports

\* Variant: decorators do not count towards needsWebContainer.
detectFeatures_DecoratorsIgnored(code) ==
  LET ext == detectExternalPackages(code)
      dec == detectDecorators(code)
      cpx == detectComplexExports(code)
  IN [ hasDecorators |-> dec, hasComplexExports |-> cpx,
       hasExternalPackages |-> Len(ext) > 0, externalPackages |-> ext,
       needsWebContainer |-> cpx \/ Len(ext) > 0 ]

detectFeatures(code) ==
  LET ext == detectExternalPackages(code)
      dec == detectDecorators(code)
      cpx == detectComplexExports(code)
  IN [ hasDecorators |-> dec, hasComplexExports |-> cpx,
       hasExternalPackages |-> Len(ext) > 0, externalPackages |-> ext,
       needsWebContainer |-> dec \/ cpx \/ Len(ext) > 0 ]

\* window.isSecureContext, "serviceWorker" in navigator, crossOriginIsolated
isWebContainerAvailable(env) ==
  IF ~env.isSecureContext THEN FALSE
  ELSE IF ~env.serviceWorker THEN FALSE
  ELSE env.crossOriginIsolated

Env(secure, worker, isolated) ==
  [ isSecureContext |-> secure, serviceWorker |-> worker,
    crossOriginIsolated |-> isolated ]

\* The isolated page, and each single capability missing.
Envs ==
  { Env(TRUE, TRUE, TRUE), Env(FALSE, TRUE, TRUE), Env(TRUE, FALSE, TRUE),
    Env(TRUE, TRUE, FALSE) }


(***************************************************************************)
(* Sandboxed Build Compiler: pure helpers                                  *)
(***************************************************************************)
\* needle occurs in the raw text: in an import path or elsewhere.
\* A scoped needle matches every path below that package; the needles
\* from "three" / from "shiki" match only the bare specifier.
TextIncludes(code, needle) ==
  \/ needle \in SourceTexts[code].mentions
  \/ \E i \in DOMAIN SourceTexts[code].imports :
       LET segs == SourceTexts[code].imports[i]
       IN IF needle \in {"three", "shiki"}
            THEN segs = <<needle>>
            ELSE Len(segs) >= 2 /\ segs[1] \o "/" \o segs[2] = needle

detectOptionalDependencies(code) ==
  SelectSeq(<< "@hhenrichsen/canvas-commons",
               "@spidunno/motion-canvas-graphing", "three", "shiki" >>
            \o lezerPackages,
            LAMBDA pkg : TextIncludes(code, pkg))

RECURSIVE InsertSorted(_, _)
InsertSorted(x, s) ==
  IF s = <<>> THEN <<x>>
  ELSE IF StringLess(x, Head(s)) THEN <<x>> \o s
  ELSE <<Head(s)>> \o InsertSorted(x, Tail(s))

RECURSIVE SortStrings(_)
SortStrings(s) ==
  IF s = <<>> THEN <<>> ELSE InsertSorted(Head(s), SortStrings(Tail(s)))

\* Variant: the key list is left in import order.
currentDeps_Unsorted(code, features) ==
  BASE_DEPENDENCIES \o detectOptionalDependencies(code)
    \o features.externalPackages

\* installDependencies: the dependency list that keys the install cache.
currentDeps(code, features) ==
  SortStrings(BASE_DEPENDENCIES \o detectOptionalDependencies(code)
              \o features.externalPackages)

\* installDependencies: JSON.stringify(currentDeps) !== JSON.stringify(last)
needsInstall(deps, lastDependencies) == deps # lastDependencies

\* installDependencies: the early return that skips npm install.
installCached(deps, lastDependencies) ==
  ~needsInstall(deps, lastDependencies) /\ Len(lastDependencies) > 0

\* createFileSystem: names of the dependencies object of package.json.
manifestDependencies(code, features) ==
  SeqToSet(BASE_DEPENDENCIES)
    \cup { p \in SeqToSet(detectOptionalDependencies(code)) :
             p \in OPTIONAL_DEPENDENCIES }
    \cup SeqToSet(features.externalPackages)

\* How a process exit is recorded in a call's stage history.
ExitEvent(exitCode) == IF exitCode = 0 THEN "exit0" ELSE "exit1"

\* Variant: the singleton is never reused.
alreadyBooted_Never(st) == FALSE

\* bootWebContainer: the singleton is reused.
alreadyBooted(st) == st.instance # 0 /\ st.booted

\* Variant: the install guard is not consulted.
installBusy_Never(st) == FALSE

\* installDependencies: if (state.installing) throw
installBusy(st) == st.installing

\* Variant: the guard is left set.
ReleaseInstallGuard_Never(st) == st

\* installDependencies: finally { state.installing = false }
ReleaseInstallGuard(st) == [ st EXCEPT !.installing = FALSE ]

\* Variant: the exit code is ignored.
exitFailed_Never(exitCode) == FALSE

\* installDependencies / buildScene: exitCode !== 0
exitFailed(exitCode) == exitCode # 0

\* Variant: the dependency list is persisted whatever the exit code.
lastDependenciesAfter_Always(st, deps, exitCode) == deps

\* installDependencies: state.lastDependencies = currentDeps is reached
\* only when the exit code is 0.
lastDependenciesAfter(st, deps, exitCode) ==
  IF exitFailed(exitCode) THEN st.lastDependencies ELSE deps

(***************************************************************************)
(* Error messages, as sequences of words                                   *)
(***************************************************************************)
\* The message of an error thrown by the sandbox API (boot, mount, spawn):
\* its text is the host's.
HostError == <<"host", "error">>

WrapSandbox(msg) == <<"WebContainer", "compilation", "failed:">> \o msg

WrapBabel(msg) == <<"Compilation", "error:">> \o msg

BootFailedMsg(msg) ==
  <<"Failed", "to", "initialize", "build", "environment:">> \o msg

InstallBusyMsg == <<"Installation", "already", "in", "progress">>

InstallFailedMsg(exitCode) ==
  <<"npm", "install", "failed", "with", "exit", "code", ToString(exitCode)>>

BuildFailedMsg(excerpt) == <<"Vite", "build", "failed:">> \o excerpt

ExtractFailedMsg(msg) == <<"Failed", "to", "extract", "built", "scene:">> \o msg

SandboxNoDefaultMsg ==
  <<"Compiled", "code", "must", "export", "a", "default", "scene">>

BabelNoDefaultMsg == <<"Code", "must", "export", "a", "default", "scene">>

CannotFindNamesMsg(names) ==
  <<"Cannot", "find", "names:">> \o names
    \o <<"Did", "you", "forget", "to", "import", "them?">>

\* sub occurs in msg as a contiguous run of words.
Contains(msg, sub) ==
  \E i \in 0..(Len(msg) - Len(sub)) :
    \A j \in 1..Len(sub) : msg[i + j] = sub[j]

StartsWith(msg, pre) ==
  Len(msg) >= Len(pre) /\ SubSeq(msg, 1, Len(pre)) = pre


(***************************************************************************)
(* State                                                                   *)
(***************************************************************************)
VARIABLES
  state,      \* the sandbox singleton: instance (0 = null), booted,
              \* installing, lastDependencies
  calls,      \* per slot: the async call running in it
  instances,  \* number of sandbox instances WebContainer.boot() has produced
  liveUrls,   \* blob URLs created and not yet revoked
  started,    \* number of compile calls started so far
  prev,       \* summary of the call that last finished in the reused slot
  fs,         \* the sandbox's file system: the source whose project files
              \* (src/scene.tsx, package.json) are mounted and the source
              \* /dist/scene.js was built from (0 = none)
  ctl,        \* the ExportController: isExporting, exporter, gifExporter
              \* (index into exporters, 0 = null)
  exporters,  \* every exporter object created so far
  exports,    \* per slot: the exportMP4 / exportGIF call running in it
  exportsStarted  \* number of export calls started so far

compileVars == << state, calls, instances, liveUrls, started, prev, fs >>

exportVars == << ctl, exporters, exports, exportsStarted >>

vars == << compileVars, exportVars >>

LoaderOrder ==
  << "loadCanvasCommons", "loadMotionCanvasGraphing", "loadThree",
     "loadShiki", "loadShikiHighlighter", "loadLezer" >>

\* Loader sets callers pass: lazy-imports/player (all six), the legacy
\* single-function form, and none.
LoaderConfigs ==
  { SeqToSet(LoaderOrder), {"loadCanvasCommons"}, {} }

\* The diagnostic sinks of a call (opts.logger, opts.onProgress): absent or
\* well-behaved, a logger whose methods throw, a progress callback that
\* throws.
Sinks == { "quiet", "loggerThrows", "progressThrows" }

CompileOptions ==
  [ forceBabel : BOOLEAN, forceWebContainer : BOOLEAN, loaders : LoaderConfigs,
    sinks : {"quiet"} ]

\* Options of callers whose sinks may throw.
SinkOptions ==
  [ forceBabel : BOOLEAN, forceWebContainer : BOOLEAN,
    loaders : { SeqToSet(LoaderOrder) }, sinks : Sinks ]

NoOptions ==
  [ forceBabel |-> FALSE, forceWebContainer |-> FALSE, loaders |-> {},
    sinks |-> "quiet" ]

\* opts.logger?.info(...) throws
loggerThrows(opts) == opts.sinks = "loggerThrows"

\* onProgress?.({...}) throws
onProgressThrows(opts) == opts.sinks = "progressThrows"

LoggerErrorMsg == <<"logger", "sink", "threw">>

ProgressErrorMsg == <<"progress", "callback", "threw">>

NoResult == [ status |-> "pending", scene |-> 0, via |-> "none", message |-> <<>> ]

\* The flags detectFeatures starts from.
NoFeatures ==
  [ hasDecorators |-> FALSE, hasComplexExports |-> FALSE,
    hasExternalPackages |-> FALSE, externalPackages |-> <<>>,
    needsWebContainer |-> FALSE ]

IdleCall ==
  [ pc |-> "idle", caller |-> "none", code |-> 0, opts |-> NoOptions,
    features |-> NoFeatures,
    avail |-> FALSE, container |-> 0, progress |-> <<>>, stages |-> <<>>,
    sandboxInvoked |-> 0, babelInvoked |-> 0, bootedAtEntry |-> FALSE,
    cacheHit |-> FALSE, deps |-> <<>>, installSpawns |-> 0,
    installedOk |-> FALSE, sandboxError |-> <<>>, babelEnvFailed |-> FALSE,
    loader |-> 0, loadersRun |-> <<>>, urlsCreated |-> 0, urlsRevoked |-> 0,
    finalCode |-> <<>>, buildInput |-> 0, builtFrom |-> 0,
    result |-> NoResult ]

NoPrev == [ packages |-> {}, installedOk |-> FALSE ]

\* An export slot with no call in it.  mine is the exporter the call
\* created, stopping the one whose stop() it awaits; cancelled records
\* that cancelExport() returned while the call was in flight.
IdleExport ==
  [ pc |-> "idle", kind |-> "none", i |-> 0, mine |-> 0, stopping |-> 0,
    cancelled |-> FALSE, result |-> "none" ]

Init ==
  /\ state = [ instance |-> 0, booted |-> FALSE, installing |-> FALSE,
               lastDependencies |-> <<>> ]
  /\ calls = [ c \in Slots |-> IdleCall ]
  /\ instances = 0
  /\ liveUrls = 0
  /\ started = 0
  /\ prev = NoPrev
  /\ fs = [ project |-> 0, dist |-> 0 ]
  /\ ctl = [ isExporting |-> FALSE, exporter |-> 0, gifExporter |-> 0 ]
  /\ exporters = <<>>
  /\ exports = [ e \in Slots |-> IdleExport ]
  /\ exportsStarted = 0

InFlight(call) == call.pc \notin {"idle", "done"}

\* The packages a source makes the sandbox project depend on beyond the base.
ImportedPackages(code) ==
  SeqToSet(detectOptionalDependencies(code))
    \cup SeqToSet(detectExternalPackages(code))

Summary(call) ==
  IF call.installedOk
    THEN [ packages |-> ImportedPackages(call.code), installedOk |-> TRUE ]
    ELSE NoPrev

(***************************************************************************)
(* Record updates shared by the actions                                    *)
(***************************************************************************)
Stage(call, stage, ev) == [ call EXCEPT !.stages = Append(@, <<stage, ev>>) ]

\* onProgress?.({stage, message, progress})
Emit(call, stage, progress) ==
  [ call EXCEPT !.progress = Append(@, <<stage, progress>>) ]

\* Variant: the blob URL is not revoked.
Revoke_Never(call) == call

\* executeCompiledCode: finally { URL.revokeObjectURL(url) }
Revoke(call) == [ call EXCEPT !.urlsRevoked = @ + 1 ]

Reject(call, msg) ==
  [ call EXCEPT !.pc = "done",
                !.result = [ status |-> "rejected", scene |-> 0,
                             via |-> "none", message |-> msg ] ]

Resolve(call, scene, via) ==
  [ call EXCEPT !.pc = "done",
                !.result = [ status |-> "resolved", scene |-> scene,
                             via |-> via, message |-> <<>> ] ]


(***************************************************************************)
(* Fast Compiler (compileWithBabel)                                        *)
(***************************************************************************)
\* The ImportDeclaration visitor: which CompilationContext flag, named by
\* the loader it triggers, an import path sets.
SetsContext(segs, loaderName) ==
  CASE loaderName = "loadCanvasCommons" ->
         Len(segs) >= 2 /\ segs[1] = "@hhenrichsen" /\ segs[2] = "canvas-commons"
    [] loaderName = "loadMotionCanvasGraphing" ->
         Len(segs) >= 2 /\ segs[1] = "@spidunno"
           /\ segs[2] = "motion-canvas-graphing"
    [] loaderName = "loadThree" -> segs[1] = "three"
    [] loaderName = "loadShiki" -> segs[1] = "shiki"
    [] loaderName = "loadShikiHighlighter" -> segs = <<".", "shiki">>
    [] loaderName = "loadLezer" -> segs[1] = "@lezer"

\* The visitor runs only on a text the parser accepted.
ContextFlag(code, loaderName) ==
  /\ SourceTexts[code].throwStage # "parse"
  /\ \E i \in DOMAIN SourceTexts[code].imports :
       SetsContext(SourceTexts[code].imports[i], loaderName)

\* Variant: the three loader is never awaited.
LoaderNeeded_SkipsThree(code, opts, i) ==
  /\ ContextFlag(code, LoaderOrder[i]) /\ LoaderOrder[i] \in opts.loaders
  /\ LoaderOrder[i] # "loadThree"

\* if (context.hasX && loadX)
LoaderNeeded(code, opts, i) ==
  ContextFlag(code, LoaderOrder[i]) /\ LoaderOrder[i] \in opts.loaders

\* Index of the first loader at or after from that is awaited; 0 if none.
NextLoader(code, opts, from) ==
  LET need == { i \in from..Len(LoaderOrder) : LoaderNeeded(code, opts, i) }
  IN IF need = {} THEN 0 ELSE CHOOSE i \in need : \A j \in need : i <= j

\* error.message of what Babel.transform throws at each stage: parser and
\* plugin errors are prefixed with the filename and followed by a code
\* frame, the parser's also carries "(line:column)".
ThrownMessage(throwStage) ==
  CASE throwStage = "parse" ->
         <<"fiddle.tsx:", "Unexpected", "token", "(1:5)", "codeframe">>
    [] throwStage = "traverse" ->
         <<"fiddle.tsx:", "export", "=", "is", "not", "supported", "codeframe">>
    [] throwStage = "result" -> <<"Babel", "transformation", "failed">>
    [] OTHER -> <<>>

\* \(\d+:\d+\)
IsLocation(word) == word = "(1:5)"

\* match = /(.*) \(\d+:\d+\)/.exec(error.message.slice(filename.length + 1))
\* errorMessage = match ? match[1] : error.message
errorMessageOf(raw) ==
  LET sliced == Tail(raw)
      locs == { i \in DOMAIN sliced : IsLocation(sliced[i]) }
  IN IF locs = {} THEN raw
     ELSE SubSeq(sliced, 1, (CHOOSE i \in locs : \A j \in locs : j <= i) - 1)

\* The message the transform's catch block keeps.
TransformErrorMsg(src) == errorMessageOf(ThrownMessage(src.throwStage))

\* if (error.loc): only the parser's errors carry a location.
errorHasLoc(src) == src.throwStage = "parse"

RECURSIVE Distinct(_, _)
Distinct(s, acc) ==
  IF s = <<>> THEN acc
  ELSE Distinct(Tail(s), IF Head(s) \in SeqToSet(acc) THEN acc
                         ELSE Append(acc, Head(s)))

\* The unbound references the ReferencedIdentifier visitor has seen.
visitedUndeclared(code) ==
  IF SourceTexts[code].throwStage = "parse" THEN <<>>
  ELSE SourceTexts[code].undeclared

\* Variant: only the first unbound name is kept.
undeclaredVariables_FirstOnly(code) ==
  IF visitedUndeclared(code) = <<>> THEN <<>>
  ELSE << Head(visitedUndeclared(code)) >>

\* Array.from(undeclaredVariables): a Set, in insertion order.
undeclaredVariables(code) == Distinct(visitedUndeclared(code), <<>>)

\* errors.length: one diagnostic per unbound reference, one for a thrown
\* error that carries a location.
errorsLength(code) ==
  Len(visitedUndeclared(code))
    + (IF SourceTexts[code].syntaxError /\ errorHasLoc(SourceTexts[code])
         THEN 1 ELSE 0)

CompilationFailedMsg == <<"Compilation", "failed">>

RECURSIVE JoinPath(_)
JoinPath(segs) ==
  IF Len(segs) = 1 THEN segs[1] ELSE segs[1] \o "/" \o JoinPath(Tail(segs))

\* path.node.source.value after the ImportDeclaration visitor: subpaths of
\* the framework and library packages are cut back to the package.
sourceValue(segs) ==
  IF segs[1] \in {"@motion-canvas", "@hhenrichsen", "@spidunno"} /\ Len(segs) >= 2
    THEN segs[1] \o "/" \o segs[2]
  ELSE IF segs[1] \in {"three", "shiki"} THEN segs[1]
  ELSE JoinPath(segs)

\* The shape of an import clause as the rewrite's patterns see it.
FormOf(clause) ==
  IF clause = <<>> THEN "bare"
  ELSE IF clause[1] = "{" /\ clause[Len(clause)] = "}" THEN "named"
  ELSE IF clause = <<"*", "word", "word">> THEN "namespace"
  ELSE IF clause = <<"word">> THEN "default"
  ELSE "other"

\* The window property each rewrite pattern binds from ("window" itself
\* for the local ./shiki module; "Lezer" stands for LezerCommon, LezerLR,
\* LezerCpp, ...).
GlobalNamespace(pkg) ==
  CASE pkg = "@motion-canvas/core" -> "CanvasCore"
    [] pkg = "@motion-canvas/2d" -> "Canvas2D"
    [] pkg = "@hhenrichsen/canvas-commons" -> "CanvasCommons"
    [] pkg = "@spidunno/motion-canvas-graphing" -> "MotionCanvasGraphing"
    [] pkg = "three" -> "THREE"
    [] pkg = "shiki" -> "Shiki"
    [] pkg = "./shiki" -> "window"
    [] pkg \in SeqToSet(lezerPackages) -> "Lezer"
    [] OTHER -> ""

\* Packages with a pattern for import x from '...'.
DefaultPatterns ==
  { "@motion-canvas/core", "@motion-canvas/2d", "@hhenrichsen/canvas-commons",
    "@spidunno/motion-canvas-graphing", "./shiki" }

\* Packages with a pattern for import * as x from '...'.
NamespacePatterns == { "three", "shiki" }

\* Some replace() pattern of replaceImportsWithGlobals matches the import.
rewritesImport(form, pkg) ==
  \/ form = "named" /\ GlobalNamespace(pkg) # ""
  \/ form = "default" /\ pkg \in DefaultPatterns
  \/ form = "namespace" /\ pkg \in NamespacePatterns

\* replaceImportsWithGlobals on the import statements of the transformed
\* text: a matched statement becomes const bindings from the package's
\* global, any other statement stays an import.
replaceImportsWithGlobals(code) ==
  [ i \in DOMAIN SourceTexts[code].imports |->
      LET pkg == sourceValue(SourceTexts[code].imports[i])
          form == FormOf(SourceTexts[code].clauses[i])
      IN IF rewritesImport(form, pkg)
           THEN [ kind |-> "const", from |-> GlobalNamespace(pkg),
                  whole |-> form = "namespace" ]
           ELSE [ kind |-> "import", from |-> pkg, whole |-> FALSE ] ]

\* Variant: the default export is not checked.
missingDefault_Never(hasDefault) == FALSE

\* if (!sceneModule.default)
missingDefault(hasDefault) == ~hasDefault

\* After the loaders: if (!result) throw, else replaceImportsWithGlobals
\* and executeCompiledCode up to await import(url): the blob URL exists
\* until the finally.
BabelExecute(call) ==
  IF SourceTexts[call.code].syntaxError
    THEN Reject(call, WrapBabel(CompilationFailedMsg))
    ELSE [ call EXCEPT !.pc = "babel_exec", !.urlsCreated = @ + 1,
                       !.finalCode = replaceImportsWithGlobals(call.code) ]

\* The loader chain from index from, then the execution of the module.
BabelLoadFrom(call, from) ==
  LET i == NextLoader(call.code, call.opts, from)
  IN IF i = 0 THEN BabelExecute(call)
     ELSE [ call EXCEPT !.pc = "babel_load", !.loader = i ]

\* compileWithBabel up to its first await: import("@babel/standalone").
EnterBabel(call) ==
  [ call EXCEPT !.pc = "babel_import", !.babelInvoked = @ + 1 ]

(***************************************************************************)
(* Orchestrator (compileScene): decisions                                  *)
(***************************************************************************)
\* Variant: forceBabel is not consulted.
shouldUseWebContainer_IgnoresForceBabel(opts, features, avail) ==
  (opts.forceWebContainer \/ features.needsWebContainer) /\ avail

\* Variant: the capability check is not consulted.
shouldUseWebContainer_IgnoresAvailability(opts, features, avail) ==
  ~opts.forceBabel /\ (opts.forceWebContainer \/ features.needsWebContainer)

shouldUseWebContainer(opts, features, avail) ==
  ~opts.forceBabel
    /\ (opts.forceWebContainer \/ features.needsWebContainer)
    /\ avail

\* Variant: every sandbox error is rethrown.
rethrowsSandboxError_Always(opts) == TRUE

\* Variant: the sandbox error is rethrown when the path was not forced.
rethrowsSandboxError_WhenUnforced(opts) == ~opts.forceWebContainer

\* Variant: no sandbox error is rethrown.
rethrowsSandboxError_Never(opts) == FALSE

\* catch: if (opts.forceWebContainer) throw error
rethrowsSandboxError(opts) == opts.forceWebContainer

\* Variant: the preload only asks whether the loader was supplied.
preloadsCanvasCommons_LoaderOnly(features, opts) ==
  "loadCanvasCommons" \in opts.loaders

\* if (externalPackages.includes('@hhenrichsen/canvas-commons') && loader)
preloadsCanvasCommons(features, opts) ==
  "@hhenrichsen/canvas-commons" \in SeqToSet(features.externalPackages)
    /\ "loadCanvasCommons" \in opts.loaders

\* An error thrown inside compileWithWebContainer's try block: its catch
\* wraps it; a compileScene caller then rethrows or falls back.
AfterSandboxError(call, msg) ==
  LET err == WrapSandbox(msg)
      failed == [ call EXCEPT !.sandboxError = err ]
  IN IF call.caller = "compileWithWebContainer" THEN Reject(failed, err)
     ELSE IF rethrowsSandboxError(call.opts) THEN Reject(failed, err)
     ELSE EnterBabel(failed)

\* compileWithWebContainer up to its first await: bootWebContainer(onProgress).
EnterSandbox(call, st) ==
  LET c1 == Stage([ call EXCEPT !.sandboxInvoked = @ + 1,
                                !.bootedAtEntry = st.booted ],
                  "boot", "start")
  IN IF alreadyBooted(st)
       THEN [ Stage(c1, "boot", "resolved") EXCEPT !.pc = "boot_done",
                                                   !.container = st.instance ]
       ELSE IF onProgressThrows(call.opts)
         THEN AfterSandboxError(c1, ProgressErrorMsg)
         ELSE [ Emit(c1, "boot", 10) EXCEPT !.pc = "boot_wait" ]


(***************************************************************************)
(* Actions: entry points                                                   *)
(***************************************************************************)
NewCall(caller, code, opts, avail) ==
  [ IdleCall EXCEPT !.caller = caller, !.code = code, !.opts = opts,
                    !.avail = avail ]

\* compileScene(code, opts), up to its first await.  The logger is called
\* first on either branch, outside every try block.
CompileSceneBody(code, opts, env, st) ==
  LET features == detectFeatures(code)
      avail == isWebContainerAvailable(env)
      call == [ NewCall("compileScene", code, opts, avail) EXCEPT
                  !.features = features ]
  IN IF loggerThrows(opts) THEN Reject(call, LoggerErrorMsg)
     ELSE IF shouldUseWebContainer(opts, features, avail)
       THEN IF preloadsCanvasCommons(features, opts)
              THEN [ call EXCEPT !.pc = "preload_wait" ]
              ELSE EnterSandbox(call, st)
       ELSE EnterBabel(call)

\* The caller starts a compile once the previous one has settled
\* (runAnimation awaits compileScene).
CompileSceneFrom(c, options) ==
  /\ started < MaxCalls
  /\ c = 1
  /\ \A d \in Slots : calls[d].pc = "idle"
  /\ \E code \in Codes, opts \in options, env \in Envs :
       calls' = [ calls EXCEPT ![c] = CompileSceneBody(code, opts, env, state) ]
  /\ started' = started + 1
  /\ UNCHANGED << exportVars, state, instances, liveUrls, prev, fs >>

CompileScene(c) == CompileSceneFrom(c, CompileOptions)

\* compileScene called with a logger and a progress callback that may throw.
CompileSceneWithSinks(c) == CompileSceneFrom(c, SinkOptions)

\* Sources the concurrent callers of the sandbox module compile.
SandboxCodes == {1, 2, 3, 7}

\* compileWithWebContainer(code, detectFeatures(code), onProgress, logger)
\* called while other calls may be in flight.
CompileWithWebContainer(c) ==
  /\ started < MaxCalls
  /\ calls[c].pc = "idle"
  /\ \E code \in SandboxCodes :
       calls' = [ calls EXCEPT ![c] =
                    EnterSandbox(
                      [ NewCall("compileWithWebContainer", code, NoOptions,
                                TRUE) EXCEPT !.features = detectFeatures(code) ],
                      state) ]
  /\ started' = started + 1
  /\ UNCHANGED << exportVars, state, instances, liveUrls, prev, fs >>

\* The caller's await returns or throws: the settled call is consumed
\* (the scene goes to the player, an error to the error display).  Once no
\* call is in flight the files left in the sandbox are no longer tracked:
\* every later call mounts before it builds and builds before it reads.
Settle(c) ==
  /\ calls[c].pc = "done"
  /\ calls' = [ calls EXCEPT ![c] = IdleCall ]
  /\ prev' = Summary(calls[c])
  /\ fs' = IF \E d \in Slots \ {c} : InFlight(calls[d])
             THEN fs ELSE [ project |-> 0, dist |-> 0 ]
  /\ UNCHANGED << exportVars, state, instances, liveUrls, started >>

\* fs is the file system of the instance in state.instance.  A call that
\* holds an instance a later boot replaced is that instance's only user,
\* so the files there are the ones it mounted and built itself.
OnCurrentInstance(call) == call.container = state.instance

\* src/scene.tsx and package.json as a process of this call's container
\* sees them.
ProjectFiles(call) ==
  IF OnCurrentInstance(call) THEN fs.project ELSE call.code

\* /dist/scene.js as this call's container holds it.
DistFile(call) ==
  IF OnCurrentInstance(call) THEN fs.dist ELSE call.buildInput

(***************************************************************************)
(* Actions: Sandboxed Build Compiler                                       *)
(***************************************************************************)
\* state.instance = await WebContainer.boot(); state.booted = true
BootResolve(c) ==
  /\ calls[c].pc = "boot_wait"
  /\ instances' = instances + 1
  /\ state' = [ state EXCEPT !.instance = instances + 1, !.booted = TRUE ]
  /\ calls' = [ calls EXCEPT ![c] =
                  [ Stage(@, "boot", "resolved") EXCEPT
                      !.pc = "boot_done", !.container = instances + 1 ] ]
  /\ fs' = [ project |-> 0, dist |-> 0 ]
  /\ UNCHANGED << exportVars, liveUrls, started, prev >>

\* Variant: the catch clears the singleton.
stateAfterBootFailure_Cleared(st) ==
  [ st EXCEPT !.instance = 0, !.booted = FALSE ]

\* bootWebContainer's catch: WebContainer.boot() rejected before either
\* assignment ran; the catch only logs and throws.
stateAfterBootFailure(st) == st

BootReject(c) ==
  /\ calls[c].pc = "boot_wait"
  /\ calls' = [ calls EXCEPT ![c] =
                  AfterSandboxError(Stage(@, "boot", "rejected"),
                                    BootFailedMsg(HostError)) ]
  /\ state' = stateAfterBootFailure(state)
  /\ UNCHANGED << exportVars, instances, liveUrls, started, prev, fs >>

\* onProgress(write); createFileSystem; await container.mount(files)
Mount(c) ==
  /\ calls[c].pc = "boot_done"
  /\ calls' = [ calls EXCEPT ![c] =
                  IF onProgressThrows(@.opts)
                    THEN AfterSandboxError(@, ProgressErrorMsg)
                    ELSE [ Stage(Emit(@, "write", 20), "mount", "start") EXCEPT
                             !.pc = "mount_wait" ] ]
  /\ UNCHANGED << exportVars, state, instances, liveUrls, started, prev, fs >>

\* buildScene up to await container.spawn("npm", ["run", "build"])
BuildStart(call) ==
  [ Stage(Emit(call, "build", 60), "build", "start") EXCEPT !.pc = "build_spawn" ]

\* The mount resolved: the files createFileSystem made from this call's
\* source replace the project's; installDependencies runs up to its first
\* await.
MountResolve(c) ==
  /\ calls[c].pc = "mount_wait"
  /\ LET call == Stage(Stage(calls[c], "mount", "resolved"), "install", "start")
         deps == currentDeps(call.code, call.features)
         withDeps == [ call EXCEPT !.deps = deps ]
     IN IF installCached(deps, state.lastDependencies)
          THEN /\ calls' = [ calls EXCEPT ![c] =
                    BuildStart([ Stage(withDeps, "install", "cached") EXCEPT
                                   !.cacheHit = TRUE ]) ]
               /\ state' = state
          ELSE IF installBusy(state)
            THEN /\ calls' = [ calls EXCEPT ![c] =
                      AfterSandboxError(Stage(withDeps, "install", "rejected"),
                                        InstallBusyMsg) ]
                 /\ state' = state
            ELSE /\ calls' = [ calls EXCEPT ![c] =
                      [ Emit(withDeps, "install", 30) EXCEPT
                          !.pc = "install_spawn", !.installSpawns = @ + 1 ] ]
                 /\ state' = [ state EXCEPT !.installing = TRUE ]
  /\ fs' = IF OnCurrentInstance(calls[c])
             THEN [ fs EXCEPT !.project = calls[c].code ] ELSE fs
  /\ UNCHANGED << exportVars, instances, liveUrls, started, prev >>

MountReject(c) ==
  /\ calls[c].pc = "mount_wait"
  /\ calls' = [ calls EXCEPT ![c] =
                  AfterSandboxError(Stage(@, "mount", "rejected"),
                                    HostError) ]
  /\ UNCHANGED << exportVars, state, instances, liveUrls, started, prev, fs >>

\* const installProcess = await container.spawn("npm", ["install"])
InstallSpawnResolve(c) ==
  /\ calls[c].pc = "install_spawn"
  /\ calls' = [ calls EXCEPT ![c].pc = "install_exit" ]
  /\ UNCHANGED << exportVars, state, instances, liveUrls, started, prev, fs >>

\* spawn throws: the finally clears the guard.
InstallSpawnReject(c) ==
  /\ calls[c].pc = "install_spawn"
  /\ state' = ReleaseInstallGuard(state)
  /\ calls' = [ calls EXCEPT ![c] =
                  AfterSandboxError(Stage(@, "install", "rejected"),
                                    HostError) ]
  /\ UNCHANGED << exportVars, instances, liveUrls, started, prev, fs >>

\* const exitCode = await installProcess.exit, then the finally.
InstallExit(c) ==
  /\ calls[c].pc = "install_exit"
  /\ \E exitCode \in {0, 1} :
       LET call == Stage(calls[c], "install", ExitEvent(exitCode))
       IN /\ state' = ReleaseInstallGuard(
                        [ state EXCEPT !.lastDependencies =
                            lastDependenciesAfter(state, call.deps, exitCode) ])
          /\ calls' = [ calls EXCEPT ![c] =
               IF exitFailed(exitCode)
                 THEN AfterSandboxError(call, InstallFailedMsg(exitCode))
                 ELSE BuildStart([ call EXCEPT !.installedOk = TRUE ]) ]
  /\ UNCHANGED << exportVars, instances, liveUrls, started, prev, fs >>


\* const buildProcess = await container.spawn("npm", ["run", "build"]):
\* the process builds the project files that are mounted when it starts.
BuildSpawnResolve(c) ==
  /\ calls[c].pc = "build_spawn"
  /\ calls' = [ calls EXCEPT ![c].pc = "build_exit",
                              ![c].buildInput = ProjectFiles(calls[c]) ]
  /\ UNCHANGED << exportVars, state, instances, liveUrls, started, prev, fs >>

BuildSpawnReject(c) ==
  /\ calls[c].pc = "build_spawn"
  /\ calls' = [ calls EXCEPT ![c] =
                  AfterSandboxError(Stage(@, "build", "rejected"),
                                    HostError) ]
  /\ UNCHANGED << exportVars, state, instances, liveUrls, started, prev, fs >>

\* const exitCode = await buildProcess.exit; on success extractBuiltScene
\* runs up to await container.fs.readFile("/dist/scene.js").
BuildExit(c) ==
  /\ calls[c].pc = "build_exit"
  /\ \E exitCode \in {0, 1} :
       LET call == Stage(calls[c], "build", ExitEvent(exitCode))
       IN /\ calls' = [ calls EXCEPT ![c] =
            IF exitFailed(exitCode)
              THEN AfterSandboxError(call,
                     BuildFailedMsg(<<"error", "during", "build:", "excerpt">>))
              ELSE [ Stage(Emit(call, "extract", 90), "extract", "start")
                       EXCEPT !.pc = "extract_wait" ] ]
          /\ fs' = IF exitFailed(exitCode) \/ ~OnCurrentInstance(calls[c])
                   THEN fs
                   ELSE [ fs EXCEPT !.dist = calls[c].buildInput ]
  /\ UNCHANGED << exportVars, state, instances, liveUrls, started, prev >>

\* readFile resolved; an empty file throws inside the try and is wrapped.
\* Otherwise replaceImportsWithGlobals, then executeCompiledCode up to
\* await import(url).
ExtractResolve(c) ==
  /\ calls[c].pc = "extract_wait"
  /\ \E empty \in BOOLEAN :
       IF empty
         THEN /\ calls' = [ calls EXCEPT ![c] =
                   AfterSandboxError(Stage(@, "extract", "empty"),
                     ExtractFailedMsg(<<"Built", "file", "is", "empty">>)) ]
              /\ liveUrls' = liveUrls
         ELSE /\ calls' = [ calls EXCEPT ![c] =
                   [ Stage(Stage(Stage(Stage(@, "extract", "resolved"),
                                       "globalize", "start"),
                                 "globalize", "resolved"),
                           "execute", "start")
                       EXCEPT !.pc = "exec_wait", !.urlsCreated = @ + 1,
                              !.builtFrom = DistFile(calls[c]) ] ]
              /\ liveUrls' = liveUrls + 1
  /\ UNCHANGED << exportVars, state, instances, started, prev, fs >>

ExtractReject(c) ==
  /\ calls[c].pc = "extract_wait"
  /\ calls' = [ calls EXCEPT ![c] =
                  AfterSandboxError(Stage(@, "extract", "rejected"),
                                    ExtractFailedMsg(<<"ENOENT">>)) ]
  /\ UNCHANGED << exportVars, state, instances, liveUrls, started, prev, fs >>

\* Variant: the final progress event is also sent when the call fails.
EmitComplete_OnFailure(call, failed) == Emit(call, "complete", 100)

\* onProgress?.({stage: "complete", progress: 100}): reached only past the
\* default-export check, as the last statement but logging and return.
EmitComplete(call, failed) ==
  IF failed THEN call ELSE Emit(call, "complete", 100)

\* The dynamic import resolved: the finally revokes the URL; the module
\* must have a default export.  A bundle of a source without a default
\* export has none.  The module is the one read from /dist/scene.js.
ExecResolve(c) ==
  /\ calls[c].pc = "exec_wait"
  /\ \E hasDefault \in BOOLEAN :
       /\ hasDefault => SourceTexts[calls[c].builtFrom].hasDefault
       /\ LET failed == missingDefault(hasDefault)
              call == EmitComplete(Revoke(Stage(calls[c], "execute",
                                                "resolved")), failed)
          IN calls' = [ calls EXCEPT ![c] =
               IF failed
                 THEN AfterSandboxError(call, SandboxNoDefaultMsg)
                 ELSE Resolve(call, call.builtFrom, "vite") ]
  /\ liveUrls' = liveUrls - 1
  /\ UNCHANGED << exportVars, state, instances, started, prev, fs >>

ExecReject(c) ==
  /\ calls[c].pc = "exec_wait"
  /\ calls' = [ calls EXCEPT ![c] =
                  AfterSandboxError(Revoke(Stage(@, "execute", "rejected")),
                                    <<"module", "threw">>) ]
  /\ liveUrls' = liveUrls - 1
  /\ UNCHANGED << exportVars, state, instances, started, prev, fs >>

(***************************************************************************)
(* Actions: Fast Compiler                                                  *)
(***************************************************************************)
\* Babel loaded: the transform and its catch, the diagnostics check
\* (if (errors.length > 0) throw errorMessage ?? "Cannot find names"), then
\* the first needed loader or the execution of the rewritten module.
BabelTransform(c) ==
  /\ calls[c].pc = "babel_import"
  /\ LET call == calls[c]
         src == SourceTexts[call.code]
     IN IF errorsLength(call.code) > 0
          THEN /\ calls' = [ calls EXCEPT ![c] =
                    Reject(call, WrapBabel(
                      IF src.syntaxError THEN TransformErrorMsg(src)
                      ELSE CannotFindNamesMsg(undeclaredVariables(call.code)))) ]
               /\ liveUrls' = liveUrls
          ELSE LET next == BabelLoadFrom(call, 1)
               IN /\ calls' = [ calls EXCEPT ![c] = next ]
                  /\ liveUrls' = IF next.pc = "babel_exec"
                                   THEN liveUrls + 1 ELSE liveUrls
  /\ UNCHANGED << exportVars, state, instances, started, prev, fs >>

\* import("@babel/standalone") rejects.
BabelImportReject(c) ==
  /\ calls[c].pc = "babel_import"
  /\ calls' = [ calls EXCEPT ![c] =
                  Reject([ @ EXCEPT !.babelEnvFailed = TRUE ],
                         WrapBabel(<<"import", "failed">>)) ]
  /\ UNCHANGED << exportVars, state, instances, liveUrls, started, prev, fs >>

\* await loadX() resolved: the next needed loader, or the execution.
LoaderResolve(c) ==
  /\ calls[c].pc = "babel_load"
  /\ LET call == [ calls[c] EXCEPT !.loadersRun = Append(@, calls[c].loader) ]
         next == BabelLoadFrom(call, call.loader + 1)
     IN /\ calls' = [ calls EXCEPT ![c] = next ]
        /\ liveUrls' = IF next.pc = "babel_exec" THEN liveUrls + 1 ELSE liveUrls
  /\ UNCHANGED << exportVars, state, instances, started, prev, fs >>

LoaderReject(c) ==
  /\ calls[c].pc = "babel_load"
  /\ calls' = [ calls EXCEPT ![c] =
                  Reject([ @ EXCEPT !.babelEnvFailed = TRUE ],
                         WrapBabel(<<"Failed", "to", "load",
                                     LoaderOrder[calls[c].loader]>>)) ]
  /\ UNCHANGED << exportVars, state, instances, liveUrls, started, prev, fs >>

\* The dynamic import resolved: revoke, then the default-export check.
BabelExecResolve(c) ==
  /\ calls[c].pc = "babel_exec"
  /\ calls' = [ calls EXCEPT ![c] =
                  LET call == Revoke(calls[c])
                  IN IF missingDefault(SourceTexts[call.code].hasDefault)
                       THEN Reject(call, WrapBabel(BabelNoDefaultMsg))
                       ELSE Resolve(call, call.code, "babel") ]
  /\ liveUrls' = liveUrls - 1
  /\ UNCHANGED << exportVars, state, instances, started, prev, fs >>

BabelExecReject(c) ==
  /\ calls[c].pc = "babel_exec"
  /\ calls' = [ calls EXCEPT ![c] =
                  Reject(Revoke([ @ EXCEPT !.babelEnvFailed = TRUE ]),
                         WrapBabel(<<"module", "threw">>)) ]
  /\ liveUrls' = liveUrls - 1
  /\ UNCHANGED << exportVars, state, instances, started, prev, fs >>

(***************************************************************************)
(* Specifications                                                          *)
(***************************************************************************)
SandboxStep(c) ==
  \/ BootResolve(c) \/ BootReject(c)
  \/ Mount(c)
  \/ MountResolve(c) \/ MountReject(c)
  \/ InstallSpawnResolve(c) \/ InstallSpawnReject(c)
  \/ InstallExit(c)
  \/ BuildSpawnResolve(c) \/ BuildSpawnReject(c)
  \/ BuildExit(c)
  \/ ExtractResolve(c) \/ ExtractReject(c)
  \/ ExecResolve(c) \/ ExecReject(c)

BabelStep(c) ==
  \/ BabelTransform(c) \/ BabelImportReject(c)
  \/ LoaderResolve(c) \/ LoaderReject(c)
  \/ BabelExecResolve(c) \/ BabelExecReject(c)

\* compileScene called by a caller that awaits each compile.
Next ==
  \E c \in Slots :
    CompileScene(c) \/ SandboxStep(c) \/ BabelStep(c) \/ Settle(c)

Spec == Init /\ [][Next]_vars

\* The sandbox module under callers that do not wait for each other.
NextConcurrent ==
  \E c \in Slots : CompileWithWebContainer(c) \/ SandboxStep(c) \/ Settle(c)

SpecConcurrent == Init /\ [][NextConcurrent]_vars

\* compileScene under callers whose diagnostic sinks may throw.
NextSinks ==
  \E c \in Slots :
    CompileSceneWithSinks(c) \/ SandboxStep(c) \/ BabelStep(c) \/ Settle(c)

SpecSinks == Init /\ [][NextSinks]_vars

(***************************************************************************)
(* Export controller and exporter objects                                  *)
(***************************************************************************)
ExportKinds == { "mp4", "gif" }

\* new MP4Exporter(settings, callbacks) / new GIFExporter(...): the fields
\* after construction.  added counts the frames ever handed to the
\* encoder, finalized records a completed finalize().
NewExporter ==
  [ isExporting |-> FALSE, abortController |-> "null", output |-> FALSE,
    frameCount |-> 0, added |-> 0, finalized |-> FALSE ]

\* MP4Exporter.cleanup
cleanupExporter(x) ==
  [ x EXCEPT !.isExporting = FALSE, !.abortController = "null",
             !.output = FALSE, !.frameCount = 0 ]

\* MP4Exporter.cancel: abort the signal, then cleanup drops the controller.
cancel(x) ==
  IF ~x.isExporting THEN x
  ELSE cleanupExporter([ x EXCEPT !.abortController = "aborted" ])

\* exporter.signal?.aborted
signalAborted(x) == x.abortController = "aborted"

\* MP4Exporter.start up to await import("mediabunny")
startExporter(x) ==
  [ x EXCEPT !.isExporting = TRUE, !.abortController = "live",
             !.frameCount = 0 ]

\* MP4Exporter.addFrame: no await inside; returns early on a stopped,
\* aborted or cleaned-up exporter.
addFrame(x) ==
  IF ~x.isExporting \/ signalAborted(x) \/ ~x.output THEN x
  ELSE [ x EXCEPT !.frameCount = @ + 1, !.added = @ + 1 ]

\* MP4Exporter.stop: the early return before await output.finalize()
stopReturnsEarly(x) == ~x.isExporting \/ ~x.output \/ signalAborted(x)

\* this.exporter / this.gifExporter as the export method of that kind
\* reads it.
ExporterField(kind, c) ==
  IF kind = "mp4" THEN c.exporter ELSE c.gifExporter

\* if (this.exporter && !this.exporter.signal?.aborted)
ExporterUsable(kind, c, exps) ==
  /\ ExporterField(kind, c) # 0
  /\ ~signalAborted(exps[ExporterField(kind, c)])

\* ExportController.cleanup
cleanupController(c) ==
  [ c EXCEPT !.isExporting = FALSE, !.exporter = 0, !.gifExporter = 0 ]

\* Variant: the busy check is missing.
exportBusy_Never(c) == FALSE

\* if (this.isExporting) throw new Error("Export already in progress")
exportBusy(c) == c.isExporting

ExportInFlight(call) == call.pc \notin { "idle", "done" }

\* The rest of the try block from the end of the loop, and the finally:
\* stop() if the exporter is usable, then seek back and cleanup().
ExportAfterLoop(e, call, exps) ==
  IF ExporterUsable(call.kind, ctl, exps)
       /\ ~stopReturnsEarly(exps[ExporterField(call.kind, ctl)])
    THEN /\ exports' = [ exports EXCEPT ![e] =
                [ call EXCEPT !.pc = "stop_wait",
                              !.stopping = ExporterField(call.kind, ctl) ] ]
         /\ exporters' = exps
         /\ ctl' = ctl
    ELSE /\ exports' = [ exports EXCEPT ![e] =
                [ call EXCEPT !.pc = "done", !.result = "resolved" ] ]
         /\ exporters' = exps
         /\ ctl' = cleanupController(ctl)

\* The loop from its head at index i: break or seek and wait 50 ms.
ExportLoopFrom(e, call, i, exps) ==
  IF i < TotalFrames /\ ExporterUsable(call.kind, ctl, exps)
    THEN /\ exports' = [ exports EXCEPT ![e] =
                [ call EXCEPT !.pc = "frame_wait", !.i = i ] ]
         /\ exporters' = exps
         /\ ctl' = ctl
    ELSE ExportAfterLoop(e, [ call EXCEPT !.i = i ], exps)

\* exportMP4(settings) / exportGIF(settings) up to the first await.  A
\* missing canvas or an empty animation throws inside the try: the catch
\* reports it and the finally cleans up.
ExportStart(e) ==
  /\ exports[e].pc = "idle"
  /\ exportsStarted < MaxExports
  /\ exportsStarted' = exportsStarted + 1
  /\ \E kind \in ExportKinds, ready \in BOOLEAN :
       LET call == [ IdleExport EXCEPT !.kind = kind ]
           id == Len(exporters) + 1
       IN IF exportBusy(ctl)
            THEN /\ exports' = [ exports EXCEPT ![e] =
                        [ call EXCEPT !.pc = "done", !.result = "rejected" ] ]
                 /\ UNCHANGED << ctl, exporters >>
            ELSE IF ~ready
              THEN /\ exports' = [ exports EXCEPT ![e] =
                          [ call EXCEPT !.pc = "done", !.result = "resolved" ] ]
                   /\ ctl' = cleanupController(ctl)
                   /\ UNCHANGED exporters
              ELSE /\ exports' = [ exports EXCEPT ![e] =
                          [ call EXCEPT !.pc = "start_import", !.mine = id ] ]
                   /\ exporters' = Append(exporters, startExporter(NewExporter))
                   /\ ctl' = IF kind = "mp4"
                               THEN [ ctl EXCEPT !.isExporting = TRUE,
                                                 !.exporter = id ]
                               ELSE [ ctl EXCEPT !.isExporting = TRUE,
                                                 !.gifExporter = id ]
  /\ UNCHANGED compileVars

\* The player shows the result or the error: the slot is free again.
ExportSettle(e) ==
  /\ exports[e].pc = "done"
  /\ exports' = [ exports EXCEPT ![e] = IdleExport ]
  /\ UNCHANGED << compileVars, ctl, exporters, exportsStarted >>

\* exporter.start: import("mediabunny") settled.  On failure start's catch
\* clears isExporting and start() resolves; the controller goes on to
\* player.reset() and the 100 ms wait.
ExportImportSettle(e) ==
  /\ exports[e].pc = "start_import"
  /\ \E ok \in BOOLEAN :
       LET x == exports[e].mine
       IN IF ok
            THEN /\ exporters' = [ exporters EXCEPT ![x].output = TRUE ]
                 /\ exports' = [ exports EXCEPT ![e].pc = "start_output" ]
            ELSE /\ exporters' = [ exporters EXCEPT ![x].isExporting = FALSE ]
                 /\ exports' = [ exports EXCEPT ![e].pc = "reset_wait" ]
  /\ UNCHANGED << compileVars, ctl, exportsStarted >>

\* exporter.start: await this.output.start() settled.
ExportOutputSettle(e) ==
  /\ exports[e].pc = "start_output"
  /\ \E ok \in BOOLEAN :
       exporters' = IF ok THEN exporters
                    ELSE [ exporters EXCEPT ![exports[e].mine].isExporting = FALSE ]
  /\ exports' = [ exports EXCEPT ![e].pc = "reset_wait" ]
  /\ UNCHANGED << compileVars, ctl, exportsStarted >>

\* The 100 ms timer fired: the loop starts.
ExportResetTimer(e) ==
  /\ exports[e].pc = "reset_wait"
  /\ ExportLoopFrom(e, exports[e], 0, exporters)
  /\ UNCHANGED << compileVars, exportsStarted >>

\* The 50 ms timer fired: addFrame on the exporter the controller holds
\* now (addFrame has no await of its own, so its promise is settled and
\* the loop goes on in the same turn), then the next iteration.
ExportFrameTimer(e) ==
  /\ exports[e].pc = "frame_wait"
  /\ LET x == ExporterField(exports[e].kind, ctl)
         exps == IF ExporterUsable(exports[e].kind, ctl, exporters)
                   THEN [ exporters EXCEPT ![x] = addFrame(@) ]
                   ELSE exporters
     IN ExportLoopFrom(e, exports[e], exports[e].i + 1, exps)
  /\ UNCHANGED << compileVars, exportsStarted >>

\* exporter.stop: await this.output.finalize() settled; stop's finally
\* cleans the exporter; the controller seeks back and its finally runs
\* cleanup().
ExportStopSettle(e) ==
  /\ exports[e].pc = "stop_wait"
  /\ \E ok \in BOOLEAN :
       exporters' = [ exporters EXCEPT ![exports[e].stopping] =
                        [ cleanupExporter(@) EXCEPT !.finalized = @ \/ ok ] ]
  /\ exports' = [ exports EXCEPT ![e].pc = "done", ![e].result = "resolved" ]
  /\ ctl' = cleanupController(ctl)
  /\ UNCHANGED << compileVars, exportsStarted >>

\* cancelExport(): cancel whichever exporter the controller holds, then
\* cleanup().
CancelExport ==
  /\ \E e \in Slots : ExportInFlight(exports[e])
  /\ exporters' = [ x \in DOMAIN exporters |->
                      IF x \in { ctl.exporter, ctl.gifExporter }
                        THEN cancel(exporters[x]) ELSE exporters[x] ]
  /\ ctl' = cleanupController(ctl)
  /\ exports' = [ e \in Slots |->
                    IF ExportInFlight(exports[e])
                      THEN [ exports[e] EXCEPT !.cancelled = TRUE ]
                      ELSE exports[e] ]
  /\ UNCHANGED << compileVars, exportsStarted >>

NextExport ==
  \/ \E e \in Slots :
       \/ ExportStart(e) \/ ExportSettle(e)
       \/ ExportImportSettle(e) \/ ExportOutputSettle(e)
       \/ ExportResetTimer(e) \/ ExportFrameTimer(e)
       \/ ExportStopSettle(e)
  \/ CancelExport

\* The export controller under a user who may press export and cancel at
\* any time.
SpecExport == Init /\ [][NextExport]_vars


(***************************************************************************)
(* Properties                                                              *)
(***************************************************************************)
SceneCalls == { c \in Slots : calls[c].caller = "compileScene" }

Done(c) == calls[c].pc = "done"

Rejected(c) == calls[c].result.status = "rejected"

Resolved(c) == calls[c].result.status = "resolved"

SandboxFailed(c) == calls[c].sandboxError # <<>>

\* The transform succeeds, no name is unresolved, a default export exists.
BabelCompilable(code) ==
  /\ ~SourceTexts[code].syntaxError
  /\ SourceTexts[code].undeclared = <<>>
  /\ SourceTexts[code].hasDefault

\* C1: compileScene calls compileWithWebContainer exactly when
\* !forceBabel && (forceWebContainer || needsWebContainer) && available;
\* otherwise only compileWithBabel runs; with both force flags set the
\* Fast Compiler runs and the sandbox is not called.
C1_PathSelection ==
  \A c \in SceneCalls :
    LET call == calls[c]
        heavy == /\ ~call.opts.forceBabel
                 /\ \/ call.opts.forceWebContainer
                    \/ detectFeatures(call.code).needsWebContainer
                 /\ call.avail
    IN /\ call.sandboxInvoked = (IF heavy THEN 1 ELSE 0)
       /\ ~heavy => call.babelInvoked = 1 /\ call.stages = <<>>
       /\ (call.opts.forceBabel /\ call.opts.forceWebContainer)
            => call.babelInvoked = 1 /\ call.sandboxInvoked = 0

C1_Witness ==
  \E c \in SceneCalls :
    /\ Done(c) /\ Resolved(c) /\ calls[c].result.via = "vite"
    /\ ~calls[c].opts.forceWebContainer
    /\ calls[c].sandboxInvoked = 1 /\ calls[c].babelInvoked = 0

\* C2: when the sandboxed path fails and forceWebContainer is unset, the
\* Fast Compiler is run once on the same source and loaders, and for a
\* source it compiles compileScene resolves with the Fast Compiler's value.
C2_FallbackSafety ==
  \A c \in SceneCalls :
    (SandboxFailed(c) /\ ~calls[c].opts.forceWebContainer) =>
      /\ calls[c].babelInvoked = 1
      /\ (Done(c) /\ BabelCompilable(calls[c].code) /\ ~calls[c].babelEnvFailed)
           => /\ Resolved(c)
              /\ calls[c].result.scene = calls[c].code
              /\ calls[c].result.via = "babel"

C2_Witness ==
  \E c \in SceneCalls :
    /\ Done(c) /\ Resolved(c) /\ calls[c].result.via = "babel"
    /\ ~calls[c].opts.forceWebContainer
    /\ Contains(calls[c].sandboxError, <<"Vite", "build", "failed:">>)

\* C3: with forceWebContainer set, a failure of the sandboxed path rejects
\* compileScene with the sandbox's error and compileWithBabel is not called.
C3_ForcedPathHonored ==
  \A c \in SceneCalls :
    (SandboxFailed(c) /\ calls[c].opts.forceWebContainer) =>
      /\ Done(c) /\ Rejected(c)
      /\ calls[c].result.message = calls[c].sandboxError
      /\ StartsWith(calls[c].result.message, WrapSandbox(<<>>))
      /\ calls[c].babelInvoked = 0

C3_Witness ==
  \E c \in SceneCalls :
    /\ calls[c].opts.forceWebContainer /\ Rejected(c)
    /\ Contains(calls[c].result.message, InstallFailedMsg(1))

\* C4: when isWebContainerAvailable() returned false, every step of the
\* call leaves the sandbox state untouched, the sandbox is never entered,
\* compileWithBabel runs, and a rejection is the Fast Compiler's own.
C4_UnavailableStep ==
  \A c \in Slots :
    (calls'[c].caller = "compileScene" /\ ~calls'[c].avail) =>
      /\ state' = state
      /\ instances' = instances
      /\ calls'[c].sandboxInvoked = 0
      /\ calls'[c].babelInvoked = 1
      /\ calls'[c].stages = <<>> /\ calls'[c].progress = <<>>
      /\ calls'[c].result.status = "rejected"
           => StartsWith(calls'[c].result.message, WrapBabel(<<>>))

C4_UnavailablePrefersBabel == [][C4_UnavailableStep]_vars

C4_Witness ==
  \E c \in SceneCalls :
    /\ ~calls[c].avail /\ calls[c].opts.forceWebContainer
    /\ ~calls[c].opts.forceBabel
    /\ detectFeatures(calls[c].code).needsWebContainer
    /\ Done(c) /\ Resolved(c) /\ calls[c].result.via = "babel"


BootsInFlight == Cardinality({ c \in Slots : calls[c].pc = "boot_wait" })

InstallsInFlight ==
  Cardinality({ c \in Slots : calls[c].pc \in {"install_spawn", "install_exit"} })

\* C5: at most one WebContainer.boot() is in flight and at most one sandbox
\* instance is ever created; a call that reaches bootWebContainer during a
\* boot awaits that boot instead of calling WebContainer.boot() again.
C5_SingleBoot == BootsInFlight <= 1 /\ instances <= 1

\* C6: at most one npm install is in flight; a call that needs an install
\* while state.installing is set rejects with 'Installation already in
\* progress', spawns nothing and leaves the sandbox state as it was.
C6_InstallStep ==
  /\ InstallsInFlight' <= 1
  /\ \A c \in Slots :
       LET deps == currentDeps(calls[c].code, detectFeatures(calls[c].code))
       IN ( /\ calls[c].pc = "mount_wait"
            /\ calls'[c].pc # "mount_wait"
            /\ <<"mount", "resolved">> \in SeqToSet(calls'[c].stages)
            /\ state.installing
            /\ ~installCached(deps, state.lastDependencies) )
          => /\ calls'[c].pc = "done"
             /\ calls'[c].result.status = "rejected"
             /\ Contains(calls'[c].result.message, InstallBusyMsg)
             /\ calls'[c].installSpawns = 0
             /\ state' = state

C6_SingleInstall == [][C6_InstallStep]_vars

C6_Witness ==
  \E c, d \in Slots :
    /\ Done(c) /\ Rejected(c)
    /\ Contains(calls[c].result.message, InstallBusyMsg)
    /\ calls[d].pc \in {"install_spawn", "install_exit"}
    /\ state.installing

StageOrder ==
  << "boot", "mount", "install", "build", "extract", "globalize", "execute" >>

FailureEvents == { "rejected", "exit1", "empty" }

SuccessEvents == { "resolved", "cached", "exit0" }

\* C8: the stages of one compileWithWebContainer call start in the order
\* boot, mount, install, build, extract, globalize, execute, each only
\* after the previous one succeeded; nothing starts after a failed stage.
C8_StagesSequential ==
  \A c \in Slots :
    LET log == calls[c].stages
    IN /\ Len(log) <= 2 * Len(StageOrder)
       /\ \A i \in DOMAIN log :
            /\ log[i][1] = StageOrder[(i + 1) \div 2]
            /\ (i % 2 = 1) => log[i][2] = "start"
            /\ (i % 2 = 0) => log[i][2] \in FailureEvents \cup SuccessEvents
            /\ log[i][2] \in FailureEvents => i = Len(log)

C8_Witness ==
  \E c \in Slots :
    /\ Done(c)
    /\ calls[c].stages =
         << <<"boot", "start">>, <<"boot", "resolved">>,
            <<"mount", "start">>, <<"mount", "resolved">>,
            <<"install", "start">>, <<"install", "exit1">> >>

ProgressOrder ==
  << <<"boot", 10>>, <<"write", 20>>, <<"install", 30>>, <<"build", 60>>,
     <<"extract", 90>>, <<"complete", 100>> >>

\* C9: the progress events of one compileWithWebContainer call are, in
\* order, a selection of boot(10), write(20), install(30), build(60),
\* extract(90), complete(100) with increasing progress values; boot is
\* absent when the sandbox was already booted and install on a cache hit.
C9_ProgressMonotonic ==
  \A c \in Slots :
    LET log == calls[c].progress
    IN /\ \A i \in DOMAIN log : log[i] \in SeqToSet(ProgressOrder)
       /\ \A i, j \in DOMAIN log : i < j => log[i][2] < log[j][2]
       /\ calls[c].bootedAtEntry => <<"boot", 10>> \notin SeqToSet(log)
       /\ calls[c].cacheHit => <<"install", 30>> \notin SeqToSet(log)
       /\ (calls[c].sandboxInvoked > 0 /\ ~calls[c].bootedAtEntry)
            => log[1] = <<"boot", 10>>

C9_Witness ==
  \E c \in Slots :
    /\ Done(c) /\ Resolved(c)
    /\ calls[c].progress =
         << <<"write", 20>>, <<"build", 60>>, <<"extract", 90>>,
            <<"complete", 100>> >>

MustExportPhrase == <<"must", "export", "a", "default", "scene">>

\* The sandbox ran every stage through the module's execution.
SandboxRanThrough(c) ==
  <<"execute", "resolved">> \in SeqToSet(calls[c].stages)

\* No failure of the environment (boot, mount, spawn, exit code, artifact,
\* module evaluation, loaders) took part in the call.
NoEnvironmentFailure(c) ==
  /\ ~calls[c].babelEnvFailed
  /\ calls[c].sandboxInvoked > 0 => SandboxRanThrough(c)

BabelUrls(c) ==
  calls[c].urlsCreated
    - (IF <<"execute", "start">> \in SeqToSet(calls[c].stages) THEN 1 ELSE 0)

\* The source of the call references an unbound, non-global identifier.
ReferencesUnbound(c) == SourceTexts[calls[c].code].undeclared # <<>>

Detected == { c \in Slots : calls[c].caller # "none" }

\* C12: the flags detectFeatures returns satisfy needsWebContainer =
\* hasDecorators \/ hasComplexExports \/ hasExternalPackages and
\* hasExternalPackages = (externalPackages is not empty); hence a source
\* with a detected decorator has needsWebContainer.
C12_FlagsConsistent ==
  \A c \in Detected :
    LET f == calls[c].features
    IN /\ f.needsWebContainer
            = (f.hasDecorators \/ f.hasComplexExports \/ f.hasExternalPackages)
       /\ f.hasExternalPackages = (f.externalPackages # <<>>)
       /\ f.hasDecorators = SourceTexts[calls[c].code].decorators
       /\ f.hasDecorators => f.needsWebContainer

C12_Witness ==
  \E c \in SceneCalls :
    /\ calls[c].features.hasDecorators
    /\ ~calls[c].features.hasComplexExports
    /\ ~calls[c].features.hasExternalPackages
    /\ calls[c].features.needsWebContainer
    /\ calls[c].sandboxInvoked = 1


\* The import specifiers of a source that are neither relative nor bundled,
\* normalized to package names, in first-occurrence order, no duplicates.
SpecifierPackages(code) == CollectExternal(SourceTexts[code].imports, <<>>)

\* C13: externalPackages is exactly the normalized, duplicate-free list of
\* the non-relative, non-bundled import specifiers of the source in
\* first-occurrence order; a source importing only bundled packages and
\* nothing else has needsWebContainer = FALSE, a source importing only
\* leftpad has externalPackages = <<"leftpad">> and needsWebContainer.
C13_ExternalPackagesExact ==
  \A c \in Detected :
    LET f == calls[c].features
        src == SourceTexts[calls[c].code]
    IN /\ f.externalPackages = SpecifierPackages(calls[c].code)
       /\ ( /\ src.imports # <<>>
            /\ \A i \in DOMAIN src.imports :
                 PackageName(src.imports[i]) \in BUNDLED_PACKAGES
            /\ ~src.decorators /\ src.exportCount = 0 /\ ~src.reexports )
          => ~f.needsWebContainer
       /\ src.imports = << <<"leftpad">> >>
          => f.externalPackages = <<"leftpad">> /\ f.needsWebContainer

\* C14: hasComplexExports holds exactly when the text has a re-export
\* form, or more than three named exports, or `export default` together
\* with more than one named export.
C14_ComplexExports ==
  \A c \in Detected :
    LET f == calls[c].features
        src == SourceTexts[calls[c].code]
        n == src.exportCount
    IN /\ f.hasComplexExports
            = (src.reexports \/ n > 3 \/ (src.exportDefaultText /\ n > 1))
       /\ (n = 3 /\ ~src.exportDefaultText /\ ~src.reexports)
            => ~f.hasComplexExports
       /\ (n = 1 /\ src.exportDefaultText /\ ~src.reexports)
            => ~f.hasComplexExports
       /\ (n = 2 /\ src.exportDefaultText) => f.hasComplexExports
       /\ n = 5 => f.hasComplexExports

C14_Witness ==
  \E c \in Slots :
    /\ calls[c].caller = "compileScene"
    /\ SourceTexts[calls[c].code].exportCount = 2
    /\ SourceTexts[calls[c].code].exportDefaultText
    /\ calls[c].features.hasComplexExports
    /\ calls[c].features.externalPackages = <<>>
    /\ calls[c].sandboxInvoked = 1


\* Blob URLs of a call that exist and are not revoked.
LiveUrlsOf(c) == calls[c].urlsCreated - calls[c].urlsRevoked

\* C15: executeCompiledCode revokes the URL it created exactly once, on
\* resolution and on rejection of the dynamic import, before the call
\* settles: a URL is live only while its import is awaited, a settled call
\* has revoked every URL it created, and the numbers of created and revoked
\* URLs agree whenever no compile is executing a module.
C15_NoUrlLeak ==
  /\ \A c \in Slots :
       /\ LiveUrlsOf(c)
            = (IF calls[c].pc \in {"exec_wait", "babel_exec"} THEN 1 ELSE 0)
       /\ Done(c) => calls[c].urlsCreated = calls[c].urlsRevoked
       /\ calls[c].urlsCreated <= calls[c].sandboxInvoked + calls[c].babelInvoked
  /\ liveUrls = LiveUrlsOf(1) + LiveUrlsOf(2)
  /\ (\A c \in Slots : calls[c].pc \in {"idle", "done"}) => liveUrls = 0

C15_Witness ==
  \E c \in SceneCalls :
    /\ Done(c) /\ Rejected(c)
    /\ calls[c].result.message = WrapBabel(<<"module", "threw">>)
    /\ <<"execute", "rejected">> \in SeqToSet(calls[c].stages)
    /\ calls[c].urlsCreated = 2 /\ calls[c].urlsRevoked = 2
    /\ liveUrls = 0


\* C17: state.installing is set exactly while one npm install is in
\* flight (between the guard being taken and the install ending by exit
\* code 0, a non-zero exit code or a throwing spawn); every way an install
\* ends clears it, and a call rejected with 'Installation already in
\* progress' leaves the guard of the running install set.
C17_GuardStep ==
  /\ state'.installing = (InstallsInFlight' = 1)
  /\ \A c \in Slots :
       /\ ( calls[c].pc \in {"install_spawn", "install_exit"}
            /\ calls'[c].pc \notin {"install_spawn", "install_exit"} )
          => ~state'.installing
       /\ ( calls[c].pc = "mount_wait" /\ calls'[c].pc = "done"
            /\ Contains(calls'[c].result.message, InstallBusyMsg) )
          => state.installing /\ state'.installing /\ InstallsInFlight' = 1

C17_GuardReleased == [][C17_GuardStep]_vars

C17_Witness ==
  \E c, d \in Slots :
    /\ Done(c) /\ Rejected(c)
    /\ Contains(calls[c].result.message, InstallBusyMsg)
    /\ Done(d) /\ Rejected(d)
    /\ Contains(calls[d].result.message, InstallFailedMsg(1))
    /\ ~state.installing

\* lastDependencies as a sorted list.
IsSorted(s) == \A i, j \in DOMAIN s : i < j => ~StringLess(s[j], s[i])

\* C18: state.lastDependencies changes only in the step where an npm
\* install exits with code 0 and then equals the sorted dependency list of
\* that install; a failed install, a cache hit, a rejected concurrent
\* install and later failures leave it unchanged, and the set of a failed
\* install is still not cached afterwards, so its next compile installs.
C18_DepsStep ==
  /\ state'.lastDependencies # state.lastDependencies
       => \E c \in Slots :
            /\ calls[c].pc = "install_exit"
            /\ calls'[c].stages[Len(calls'[c].stages) - 1] = <<"install", "exit0">>
            /\ state'.lastDependencies = calls[c].deps
            /\ IsSorted(state'.lastDependencies)
            /\ SeqToSet(state'.lastDependencies)
                 = SeqToSet(BASE_DEPENDENCIES) \cup ImportedPackages(calls[c].code)
  /\ \A c \in Slots :
       ( /\ calls[c].pc \in {"install_spawn", "install_exit"}
         /\ calls'[c].pc \notin {"install_spawn", "install_exit"}
         /\ ~calls'[c].installedOk )
       => /\ state'.lastDependencies = state.lastDependencies
          /\ ~installCached(calls[c].deps, state'.lastDependencies)

C18_DepsOnlyOnSuccess == [][C18_DepsStep]_vars

C18_Witness ==
  \E c \in Slots :
    /\ Done(c) /\ Rejected(c)
    /\ Contains(calls[c].result.message, InstallFailedMsg(1))
    /\ state.lastDependencies # <<>>
    /\ state.lastDependencies # calls[c].deps


\* The path compileScene takes for a call when no sink interferes.
Heavy(c) ==
  /\ ~calls[c].opts.forceBabel
  /\ calls[c].opts.forceWebContainer \/ calls[c].features.needsWebContainer
  /\ calls[c].avail

\* C16: a throwing logger or progress callback never changes a compile: the
\* exception is swallowed (no rejection and no sandbox error carries it),
\* the call still enters the compiler its options and source select, and a
\* sandboxed compile is not failed by its progress events.
C16_SinkFailuresSwallowed ==
  \A c \in SceneCalls :
    calls[c].opts.sinks # "quiet" =>
      /\ ~Contains(calls[c].result.message, LoggerErrorMsg)
      /\ ~Contains(calls[c].result.message, ProgressErrorMsg)
      /\ ~Contains(calls[c].sandboxError, ProgressErrorMsg)
      /\ calls[c].sandboxInvoked = (IF Heavy(c) THEN 1 ELSE 0)
      /\ ~Heavy(c) => calls[c].babelInvoked = 1


\* The stage at which the failure of a sandboxed compile was injected:
\* a rejected boot, mount or read, a non-zero exit code, an empty artifact,
\* or a module without default export.
InjectedStage(c) ==
  LET log == calls[c].stages
      last == log[Len(log)]
  IN IF log = <<>> THEN "none"
     ELSE IF last[2] = "rejected" /\ last[1] \in {"boot", "mount", "extract"}
       THEN last[1]
     ELSE IF last[2] \in {"exit1", "empty"} THEN last[1]
     ELSE IF last = <<"execute", "resolved">> THEN "execute"
     ELSE "none"

\* Words by which a message names a stage.
StageWords(stage) ==
  CASE stage = "boot" -> { <<"initialize", "build", "environment:">> }
    [] stage = "mount" -> { <<"mount">>, <<"project", "files">>,
                            <<"file", "system">> }
    [] stage = "install" -> { <<"npm", "install">> }
    [] stage = "build" -> { <<"Vite", "build">> }
    [] stage = "extract" -> { <<"extract", "built", "scene:">> }
    [] stage = "execute" -> { <<"must", "export", "a", "default", "scene">> }
    [] OTHER -> {}

\* C19: every rejection of compileWithWebContainer caused by a failure at
\* boot, mount, install, build, extract or by a missing default export
\* carries a message that names that stage, and reaches compileScene, which
\* rethrows it or falls back.
C19_StageQualified ==
  \A c \in SceneCalls :
    (SandboxFailed(c) /\ InjectedStage(c) # "none") =>
      /\ StartsWith(calls[c].sandboxError, WrapSandbox(<<>>))
      /\ \E w \in StageWords(InjectedStage(c)) :
           Contains(calls[c].sandboxError, w)
      /\ IF calls[c].opts.forceWebContainer
           THEN calls[c].result.message = calls[c].sandboxError
           ELSE calls[c].babelInvoked = 1

\* A transform error's own message: without the filename prefix and
\* without the location and code frame that follow it.
Stripped(raw) ==
  LET body == IF Head(raw) = "fiddle.tsx:" THEN Tail(raw) ELSE raw
      cut == { i \in DOMAIN body : body[i] \in {"(1:5)", "codeframe"} }
  IN IF cut = {} THEN body
     ELSE SubSeq(body, 1, (CHOOSE i \in cut : \A j \in cut : i <= j) - 1)

\* C20: when the transform throws, compileWithBabel rejects with
\* 'Compilation error: ' followed by the transform's own message, stripped
\* of filename and location, whether or not the error carries a location.
C20_TransformErrorSurfaced ==
  \A c \in Slots :
    LET src == SourceTexts[calls[c].code]
    IN ( /\ calls[c].babelInvoked > 0 /\ Done(c)
         /\ calls[c].code \in Codes /\ src.syntaxError
         /\ ~calls[c].babelEnvFailed )
       => /\ Rejected(c)
          /\ calls[c].result.message
               = WrapBabel(Stripped(ThrownMessage(src.throwStage)))


\* The loaders compileWithBabel has to await for a call, in their order:
\* those of the libraries the source imports that the caller supplied.
RequiredLoaders(c) ==
  SelectSeq([ i \in 1..Len(LoaderOrder) |-> i ],
            LAMBDA i : /\ ContextFlag(calls[c].code, LoaderOrder[i])
                       /\ LoaderOrder[i] \in calls[c].opts.loaders)

IsPrefix(a, b) == Len(a) <= Len(b) /\ SubSeq(b, 1, Len(a)) = a

LoaderFailed(c) ==
  StartsWith(calls[c].result.message, WrapBabel(<<"Failed", "to", "load">>))

\* C21: on the Fast path the loaders of the referenced libraries are
\* awaited one at a time in the fixed order; the module is executed only
\* after all of them resolved; a rejected loader rejects the compile with no
\* execution and no further loader.
C21_LoadersBeforeExecution ==
  \A c \in Slots :
    calls[c].babelInvoked > 0 =>
      /\ IsPrefix(calls[c].loadersRun, RequiredLoaders(c))
      /\ calls[c].pc = "babel_load" =>
           /\ Len(calls[c].loadersRun) < Len(RequiredLoaders(c))
           /\ calls[c].loader = RequiredLoaders(c)[Len(calls[c].loadersRun) + 1]
      /\ (calls[c].pc = "babel_exec" \/ BabelUrls(c) > 0)
           => calls[c].loadersRun = RequiredLoaders(c)
      /\ (Done(c) /\ LoaderFailed(c)) =>
           /\ Rejected(c) /\ BabelUrls(c) = 0
           /\ Len(calls[c].loadersRun) < Len(RequiredLoaders(c))

C21_Witness ==
  \E c \in SceneCalls :
    /\ Done(c) /\ Resolved(c) /\ calls[c].result.via = "babel"
    /\ calls[c].loadersRun = <<1, 3>>
    /\ BabelUrls(c) = 1


\* The packages the Fast Compiler's rewrite recognizes.
RecognizedPackages == BUNDLED_PACKAGES \cup {"./shiki"}

\* C22: for every recognized package, replaceImportsWithGlobals turns each
\* named, aliased, default and namespace import into const bindings from
\* that package's global; no import of a recognized package remains in the
\* text that is executed.
C22_ImportsRewritten ==
  \A c \in Slots :
    BabelUrls(c) > 0 =>
      LET src == SourceTexts[calls[c].code]
      IN /\ Len(calls[c].finalCode) = Len(src.imports)
         /\ \A i \in DOMAIN src.imports :
              ( /\ sourceValue(src.imports[i]) \in RecognizedPackages
                /\ FormOf(src.clauses[i]) \in {"named", "default", "namespace"} )
              => /\ calls[c].finalCode[i].kind = "const"
                 /\ calls[c].finalCode[i].from
                      = GlobalNamespace(sourceValue(src.imports[i]))


\* C23: when the sandboxed path fails without forceWebContainer and the
\* Fast Compiler fails too, compileScene rejects with the Fast Compiler's
\* 'Compilation error: ...' alone; the sandbox's message is not part of the
\* rejection; one sandbox attempt was followed by one Fast Compiler run.
C23_FallbackErrorOnly ==
  \A c \in SceneCalls :
    ( /\ SandboxFailed(c) /\ ~calls[c].opts.forceWebContainer
      /\ Done(c) /\ Rejected(c) )
    => /\ StartsWith(calls[c].result.message, WrapBabel(<<>>))
       /\ ~Contains(calls[c].result.message, WrapSandbox(<<>>))
       /\ \A i \in 1..Len(calls[c].result.message) :
            SubSeq(calls[c].result.message, i, Len(calls[c].result.message))
              # calls[c].sandboxError
       /\ calls[c].sandboxInvoked = 1
       /\ calls[c].babelInvoked = 1

C23_Witness ==
  \E c \in SceneCalls :
    /\ Done(c) /\ Rejected(c) /\ ~calls[c].opts.forceWebContainer
    /\ Contains(calls[c].sandboxError, <<"Vite", "build", "failed:">>)
    /\ calls[c].result.message = <<"Compilation", "error:", "Unexpected", "token">>


BuildStarted(call) == <<"build", "start">> \in SeqToSet(call.stages)

\* C24: no call starts buildScene while state.installing is set, also
\* not a call that skips its own install on a dependency cache hit while
\* another call's install is running.
C24_BuildStep ==
  \A c \in Slots :
    (~BuildStarted(calls[c]) /\ BuildStarted(calls'[c]))
      => ~state'.installing /\ InstallsInFlight' = 0

C24_NoBuildDuringInstall == [][C24_BuildStep]_vars


\* C25: a sandboxed compile builds the project files it mounted itself and
\* resolves with the module built from its own source, whatever other
\* call uses the shared sandbox at the same time.
C25_BuildsOwnSource ==
  \A c \in Slots :
    /\ calls[c].pc \in {"install_spawn", "install_exit", "build_spawn"}
         => ProjectFiles(calls[c]) = calls[c].code
    /\ calls[c].buildInput # 0 => calls[c].buildInput = calls[c].code
    /\ calls[c].builtFrom # 0 => calls[c].builtFrom = calls[c].code
    /\ (Resolved(c) /\ calls[c].result.via = "vite")
         => calls[c].result.scene = calls[c].code


\* C26: the install cache key follows the manifest: the key list a call
\* computes equals the key list of any other source exactly when the two
\* package.json files declare the same set of dependency names, also for
\* sources that import a base dependency such as vite.
C26_KeyFollowsManifest ==
  \A c \in Slots : \A other \in DOMAIN SourceTexts :
    calls[c].deps # <<>> =>
      ( manifestDependencies(other, detectFeatures(other))
          = manifestDependencies(calls[c].code, calls[c].features)
        <=> currentDeps(other, detectFeatures(other)) = calls[c].deps )


CompleteAt(c) ==
  { i \in DOMAIN calls[c].progress : calls[c].progress[i][1] = "complete" }

\* C28: a call's progress events hold a 'complete' event exactly when
\* compileWithWebContainer resolved for it; that event carries 100, is the
\* only one that does and is the last event; a compileScene call that
\* resolves through the Fast Compiler, directly or after a fallback, has
\* no 'complete' event.
C28_CompleteOnlyOnSandboxSuccess ==
  \A c \in Slots :
    LET events == calls[c].progress
    IN /\ CompleteAt(c) # {}
            <=> (Resolved(c) /\ calls[c].result.via = "vite")
       /\ \A i \in DOMAIN events :
            (events[i][2] = 100 \/ i \in CompleteAt(c))
              => /\ events[i] = <<"complete", 100>>
                 /\ i = Len(events)
       /\ (Resolved(c) /\ calls[c].result.via = "babel") => CompleteAt(c) = {}

\* A compile that fell back after the sandbox had delivered its events up
\* to the extraction resolves through the Fast Compiler.
C28_Witness ==
  \E c \in SceneCalls :
    /\ Resolved(c) /\ calls[c].result.via = "babel"
    /\ SandboxFailed(c)
    /\ \E i \in DOMAIN calls[c].progress : calls[c].progress[i] = <<"extract", 90>>
    /\ CompleteAt(c) = {}


\* isWebContainerReady() for a state of the singleton.
isWebContainerReady(st) == st.booted /\ st.instance # 0

\* The step in which call c's WebContainer.boot() rejects.
BootFailsIn(c) ==
  /\ calls[c].pc = "boot_wait"
  /\ <<"boot", "rejected">> \in SeqToSet(calls'[c].stages)

\* The step in which call c enters compileWithWebContainer.
EntersSandbox(c) ==
  calls'[c].sandboxInvoked = calls[c].sandboxInvoked + 1

\* What holds of the singleton in every step whatever the boot's outcome:
\* booted implies an instance, booted is never reset, a call entering with
\* booted set invokes no boot and one entering without it attempts the boot.
C29_SingletonStep ==
  /\ state'.booted => state'.instance # 0
  /\ isWebContainerReady(state') => state'.instance # 0
  /\ state.booted => state'.booted
  /\ \A c \in Slots :
       EntersSandbox(c) =>
         IF state.booted
           THEN /\ calls'[c].pc # "boot_wait"
                /\ calls'[c].bootedAtEntry
                /\ instances' = instances
           ELSE calls'[c].pc = "boot_wait"

\* C29 as stated: a failed WebContainer.boot() leaves booted = false and
\* instance = null.
C29_AsClaimedStep ==
  /\ C29_SingletonStep
  /\ \A c \in Slots :
       BootFailsIn(c) => (~state'.booted /\ state'.instance = 0)

C29_BootStep ==
  /\ C29_SingletonStep
  /\ \A c \in Slots :
       BootFailsIn(c) =>
         /\ state' = state
         /\ instances = 0 => (~state'.booted /\ state'.instance = 0)

LoopsRunning ==
  Cardinality({ e \in Slots : exports[e].pc = "frame_wait" })

\* C30: the export controller runs at most one frame-stepping loop at a
\* time; an export call made while isExporting is set is rejected and
\* changes nothing; and a call that cancelExport() has cancelled hands no
\* further frame to any exporter, starts or completes no stop(), and does
\* not reset isExporting or the exporter fields of a later export.
C30_ExportStep ==
  /\ LoopsRunning' <= 1
  /\ \A e \in Slots :
       /\ ( exports[e].pc = "idle" /\ exports'[e].pc # "idle"
            /\ ctl.isExporting )
          => /\ exports'[e].result = "rejected"
             /\ ctl' = ctl /\ exporters' = exporters
       /\ ( exports[e].cancelled /\ exports'[e] # exports[e] )
          => /\ \A x \in DOMAIN exporters :
                  /\ exporters'[x].added = exporters[x].added
                  /\ exporters'[x].finalized = exporters[x].finalized
             /\ exports'[e].pc # "stop_wait"
             /\ ctl.isExporting => ctl' = ctl

C30_SingleExportLoop == [][C30_ExportStep]_vars

====
